---- MODULE Spec2Model ----
(***************************************************************************)
(* Model of the PVC / LD calculation engine of app.py: parse_date,         *)
(* get_month_key, find_index, calc_pvc, calc_ld and the /calculate         *)
(* handler with its scenario comparison.                                   *)
(*                                                                         *)
(* Numbers: Python computes with floats; the model computes with exact     *)
(* rationals <<n, d>> (d > 0, lowest terms), so every statement about an   *)
(* amount is a statement about the real-number value of the formula.       *)
(* Dates: records [year, month, day]; the forms carry no time component.   *)
(***************************************************************************)
EXTENDS Integers, Sequences, FiniteSets, TLC

(* ------------------------------ CONFIG ------------------------------ *)

Terms == <<"Copper", "CRGO", "MS", "InsMat", "TransOil", "WPI">>

COEFFS == [Copper |-> 40, CRGO |-> 24, MS |-> 8, InsMat |-> 4, TransOil |-> 8, WPI |-> 8]

CONST_TERM == 8

(* ------------------------- float arithmetic ------------------------- *)

Abs(x) == IF x < 0 THEN -x ELSE x

RECURSIVE GCD(_, _)
GCD(a, b) == IF b = 0 THEN a ELSE GCD(b, a % b)

Norm(n, d) ==
    LET s == IF d < 0 THEN -1 ELSE 1
        g == GCD(Abs(n), Abs(d))
    IN  <<(s * n) \div g, (s * d) \div g>>

R(i) == <<i, 1>>

RAdd(a, b) == Norm(a[1] * b[2] + b[1] * a[2], a[2] * b[2])

RSub(a, b) == Norm(a[1] * b[2] - b[1] * a[2], a[2] * b[2])

RMul(a, b) == Norm(a[1] * b[1], a[2] * b[2])

RDiv(a, b) == Norm(a[1] * b[2], a[2] * b[1])

RLe(a, b) == a[1] * b[2] <= b[1] * a[2]

RLt(a, b) == a[1] * b[2] < b[1] * a[2]

RMin(a, b) == IF RLe(b, a) THEN b ELSE a

(* math.ceil(days/7) for an integer number of days *)
CeilDiv(n, k) == IF n % k = 0 THEN n \div k ELSE (n \div k) + 1

(* ------------------------------ dates ------------------------------- *)

IsLeap(y) == (y % 4 = 0) /\ ((y % 100 # 0) \/ (y % 400 = 0))

DaysInMonth(y, m) ==
    IF m = 2 THEN (IF IsLeap(y) THEN 29 ELSE 28)
    ELSE IF m \in {4, 6, 9, 11} THEN 30 ELSE 31

ValidDate(y, m, d) ==
    /\ y \in 1..9999
    /\ m \in 1..12
    /\ d >= 1
    /\ d <= DaysInMonth(y, m)

Date(y, m, d) == [year |-> y, month |-> m, day |-> d]

RECURSIVE DaysBeforeMonth(_, _)
DaysBeforeMonth(y, m) ==
    IF m = 1 THEN 0 ELSE DaysBeforeMonth(y, m - 1) + DaysInMonth(y, m - 1)

(* datetime.toordinal: 1 for 0001-01-01 *)
toordinal(dt) ==
    LET y == dt.year - 1
    IN  365 * y + (y \div 4) - (y \div 100) + (y \div 400)
          + DaysBeforeMonth(dt.year, dt.month) + dt.day

(* (a - b).days *)
DaysBetween(a, b) == toordinal(a) - toordinal(b)

(* a < b on datetimes *)
DateLt(a, b) == toordinal(a) < toordinal(b)

(* mutant: the month goes back but the year is kept in January *)
MinusOneMonth_sameyear(dt) ==
    LET m == IF dt.month = 1 THEN 12 ELSE dt.month - 1
        d == IF dt.day > DaysInMonth(dt.year, m) THEN DaysInMonth(dt.year, m) ELSE dt.day
    IN  Date(dt.year, m, d)

(* dt - relativedelta(months=1): previous month, the day clamped to its length *)
MinusOneMonth(dt) ==
    LET y == IF dt.month = 1 THEN dt.year - 1 ELSE dt.year
        m == IF dt.month = 1 THEN 12 ELSE dt.month - 1
        d == IF dt.day > DaysInMonth(y, m) THEN DaysInMonth(y, m) ELSE dt.day
    IN  Date(y, m, d)

(* ----------------------------- helpers ------------------------------ *)

Err(m) == [err |-> TRUE, msg |-> m]

(* A date string is modelled by its three "-"-separated numeric fields;     *)
(* <<>> is the empty or absent string.  "%d-%m-%Y" is tried first, then     *)
(* "%Y-%m-%d"; %Y takes exactly four digits, %d and %m at most two.         *)
parse_date(date_str) ==
    IF Len(date_str) # 3 THEN Err("Invalid date format")
    ELSE IF /\ date_str[1] \in 1..31
            /\ date_str[3] \in 1000..9999
            /\ ValidDate(date_str[3], date_str[2], date_str[1])
         THEN [err |-> FALSE, value |-> Date(date_str[3], date_str[2], date_str[1])]
    ELSE IF /\ date_str[1] \in 1000..9999
            /\ date_str[3] \in 1..31
            /\ ValidDate(date_str[1], date_str[2], date_str[3])
         THEN [err |-> FALSE, value |-> Date(date_str[1], date_str[2], date_str[3])]
    ELSE Err("Invalid date format")

get_month_key(dt, prev_month) ==
    LET d == IF prev_month THEN MinusOneMonth(dt) ELSE dt
    IN  Date(d.year, d.month, 1)

(* mutant: a missing month falls back to the latest month of the table *)
find_index_nearest(df, dt, prev_month) ==
    LET key == get_month_key(dt, prev_month)
        last == CHOOSE k \in DOMAIN df : \A j \in DOMAIN df : toordinal(j) <= toordinal(k)
    IN  IF key \in DOMAIN df THEN [err |-> FALSE, value |-> df[key]]
        ELSE IF DOMAIN df = {} THEN Err("Indices not found")
        ELSE [err |-> FALSE, value |-> df[last]]

(* df: the index table, a function from month keys to rows [C, ES, IS, IM, TO, W] *)
find_index(df, dt, prev_month) ==
    LET key == get_month_key(dt, prev_month)
    IN  IF key \notin DOMAIN df
        THEN Err("Indices not found")
        ELSE [err |-> FALSE, value |-> df[key]]

(* ----------------------- PVC & LD calculation ----------------------- *)

(* term -> index column, as in calc_pvc's mapping *)
mapping == [Copper |-> "C", CRGO |-> "ES", MS |-> "IS", InsMat |-> "IM", TransOil |-> "TO", WPI |-> "W"]

ratio_of(b, d) == IF b # 0 THEN RDiv(R(d), R(b)) ELSE R(1)

(* In the operators below a local variable v = e of the code is written   *)
(* CHOOSE r \in {body : v \in {e}} : TRUE, the body evaluated with v bound. *)
term_of(t, base_row, del_row) ==
    LET b == base_row[mapping[t]]
        d == del_row[mapping[t]]
    IN  CHOOSE term \in
            {[coef |-> COEFFS[t], base |-> b, del |-> d, ratio |-> ratio,
              value |-> RMul(R(COEFFS[t]), ratio)] :
                ratio \in {ratio_of(b, d)}} : TRUE

RECURSIVE sum_values(_, _)
sum_values(terms, i) ==
    IF i = 0 THEN R(0) ELSE RAdd(sum_values(terms, i - 1), terms[Terms[i]].value)

total_of(terms) == RAdd(R(CONST_TERM), sum_values(terms, Len(Terms)))

price_of(P0, total) == RMul(RDiv(P0, R(100)), total)

(* lines 81-96, once both rows are found *)
pvc_of(P0, base_date, del_date, base_row, del_row) ==
    CHOOSE pvc \in
        {[err |-> FALSE, P0 |-> P0, base |-> base_date, delivery |-> del_date,
          terms |-> x.terms, total |-> x.total, P |-> price_of(P0, x.total)] :
            x \in {[terms |-> terms, total |-> total_of(terms)] :
                      terms \in {[t \in {Terms[i] : i \in 1..Len(Terms)} |->
                                     term_of(t, base_row, del_row)]}}} : TRUE

calc_pvc(P0, base_date, del_date, df) ==
    CHOOSE pvc \in
        {IF base_row.err THEN base_row
         ELSE IF del_row.err THEN del_row
         ELSE pvc_of(P0, base_date, del_date, base_row.value, del_row.value) :
            base_row \in {find_index(df, base_date, FALSE)},
            del_row \in {find_index(df, del_date, TRUE)}} : TRUE

(* mutant: whole weeks rounded down *)
ld_weeks_floor(days) == days \div 7

ld_weeks(days) == CeilDiv(days, 7)

(* mutant: the 10% cap is missing *)
ld_percent_uncapped(weeks) == RDiv(R(weeks), R(2))

ld_percent_of(weeks) == RMin(RDiv(R(weeks), R(2)), R(10))

ld_amt_of(P0, ld_percent) == RMul(RDiv(RMul(P0, <<118, 100>>), R(100)), ld_percent)

ld_early(days) == [days |-> days, weeks |-> 0, ld_percent |-> R(0), ld_amt |-> R(0)]

(* mutant: the early return for days <= 0 is missing *)
calc_ld_noguard(P0, original_dp, delivery_date) ==
    LET days == DaysBetween(delivery_date, original_dp)
        weeks == ld_weeks(days)
        ld_percent == ld_percent_of(weeks)
    IN  [days |-> days, weeks |-> weeks, ld_percent |-> ld_percent,
         ld_amt |-> ld_amt_of(P0, ld_percent)]

calc_ld(P0, original_dp, delivery_date) ==
    CHOOSE ld \in
        {IF days <= 0
         THEN ld_early(days)
         ELSE CHOOSE late \in
                  {[days |-> days, weeks |-> weeks, ld_percent |-> ld_percent,
                    ld_amt |-> ld_amt_of(P0, ld_percent)] :
                      weeks \in {ld_weeks(days)},
                      ld_percent \in {ld_percent_of(ld_weeks(days))}} : TRUE :
            days \in {DaysBetween(delivery_date, original_dp)}} : TRUE

(* ------------------------- inspection data -------------------------- *)

(* insp_df after loading: rows with ICNO and call_date; a call_date cell   *)
(* that pd.to_datetime cannot read is NaT.                                  *)
insp_df ==
    << [ICNO |-> "IC1", call_date |-> [nat |-> FALSE, value |-> Date(2024, 1, 15)]],
       [ICNO |-> "IC2", call_date |-> [nat |-> TRUE,  value |-> Date(1, 1, 1)]],
       [ICNO |-> "IC1", call_date |-> [nat |-> FALSE, value |-> Date(2024, 3, 5)]] >>

(* str.strip on the order identifiers the forms carry *)
strip(s) == IF s = " IC1 " THEN "IC1" ELSE s

(* str.lower on the opt-in flags the forms carry *)
lower_str(s) == IF s = "Y" THEN "y" ELSE IF s = "YES" THEN "yes" ELSE s

(* the rows of insp_df whose ICNO, as a string, equals icno: their indices *)
rows_of(icno) == {i \in 1..Len(insp_df) : insp_df[i].ICNO = icno}

Least(S) == CHOOSE i \in S : \A j \in S : i <= j

(* float(request.form[...]): a numeric field is [numeric |-> TRUE, value];  *)
(* a missing or non-numeric one raises                                      *)
to_float(raw) ==
    IF raw.numeric THEN [err |-> FALSE, value |-> R(raw.value)]
    ELSE Err("could not convert string to float")

(* ------------------------------ routes ------------------------------ *)

ErrorResponse(m) == [response |-> [kind |-> "error", msg |-> m], report |-> <<>>]

(* mutant: the comparison is reversed *)
beneficial_max(case1, case2) == IF RLe(case2.net, case1.net) THEN case1 ELSE case2

(* mutant: < in place of <= *)
beneficial_strict(case1, case2) == IF RLt(case1.net, case2.net) THEN case1 ELSE case2

(* x if x["net"] <= y["net"] else y *)
beneficial(case1, case2) == IF RLe(case1.net, case2.net) THEN case1 ELSE case2

(* lines 186-195: the call date of the request *)
call_date_of(form) ==
    LET icno == strip(form.icno)
        row  == rows_of(icno)
    IN  IF row = {}
        THEN IF form.call_date_manual = <<>>
             THEN [err |-> TRUE, returned |-> TRUE, msg |-> "ICNO not found and call_date missing"]
             ELSE parse_date(form.call_date_manual)
        ELSE LET cell == insp_df[Least(row)].call_date
             IN  IF cell.nat
                 THEN [err |-> TRUE, returned |-> TRUE, msg |-> "Call_date invalid in insp_call.xlsx"]
                 ELSE [err |-> FALSE, value |-> cell.value]

(* mutant: the LD is added to the escalated price *)
with_ld_added(pvc, name, ld) ==
    [name |-> name, ld_amt |-> ld.ld_amt, net |-> RAdd(pvc.P, ld.ld_amt), ld_detail |-> ld] @@ pvc

(* lines 200-206: a normal scenario, net of the LD *)
with_ld(pvc, name, ld) ==
    [name |-> name, ld_amt |-> ld.ld_amt, net |-> RSub(pvc.P, ld.ld_amt), ld_detail |-> ld] @@ pvc

(* lines 219-225: a lower rate scenario, no LD *)
without_ld(pvc, name) == [name |-> name, net |-> pvc.P] @@ pvc

Comparison(title, case1, case2, b) ==
    [title |-> title, case1 |-> case1, case2 |-> case2, beneficial |-> b]

(* mutant: <= in place of < *)
single_lower_le(original_dp, lower_date) == ~DateLt(lower_date, original_dp)

(* line 218: the single-scenario branch is taken when original_dp < lower_date *)
single_lower(original_dp, lower_date) == DateLt(original_dp, lower_date)

(* lines 215-229: the lower rate branch; yields the scenarios to append,   *)
(* the comparisons to append and the final beneficial case                 *)
(* lines 219-222: the single lower rate scenario *)
lower_single(pvc, benef_normal) ==
    CHOOSE low \in
        {[err |-> FALSE, pvcs |-> <<pvc_lower>>, comparisons |-> <<>>,
          final_beneficial |-> beneficial(pvc_lower, benef_normal)] :
            pvc_lower \in {without_ld(pvc, "Lower Rate PVC (Actual)")}} : TRUE

(* lines 224-229: the two lower rate scenarios and their comparison *)
lower_pair(pa, pb, benef_normal) ==
    CHOOSE low \in
        {[err |-> FALSE, pvcs |-> <<x.pvc_a, x.pvc_b>>,
          comparisons |-> <<Comparison("Lower Rate PVC Comparison (Case A vs Case B)",
                                       x.pvc_a, x.pvc_b, x.benef_lower)>>,
          final_beneficial |-> beneficial(x.benef_lower, benef_normal)] :
            x \in {[pvc_a |-> pvc_a, pvc_b |-> pvc_b, benef_lower |-> beneficial(pvc_a, pvc_b)] :
                      pvc_a \in {without_ld(pa, "Lower Rate PVC (Contractual)")},
                      pvc_b \in {without_ld(pb, "Lower Rate PVC (Actual)")}}} : TRUE

lower_rate(form, df, original_dp, call_date, benef_normal) ==
    CHOOSE low \in
        {IF P0L.err THEN P0L
         ELSE IF lower_date.err THEN lower_date
         ELSE CHOOSE branch \in
                  {IF single_lower(original_dp, lower_date.value)
                   THEN (IF pb.err THEN pb ELSE lower_single(pb, benef_normal))
                   ELSE (CHOOSE pair \in
                            {IF pa.err THEN pa
                             ELSE IF pb.err THEN pb
                             ELSE lower_pair(pa, pb, benef_normal) :
                                pa \in {calc_pvc(P0L.value, lower_date.value, original_dp, df)}}
                            : TRUE) :
                      pb \in {calc_pvc(P0L.value, lower_date.value, call_date, df)}} : TRUE :
            P0L \in {to_float(form.P0_lower)},
            lower_date \in {parse_date(form.lower_date)}} : TRUE

(* GET /check_icno: the call date is formatted "%d-%m-%Y", "" for NaT *)
check_icno(raw) ==
    LET icno == strip(raw)
        row  == rows_of(icno)
    IN  IF row = {}
        THEN [found |-> FALSE]
        ELSE LET cell == insp_df[Least(row)].call_date
             IN  [found |-> TRUE,
                  call_date |-> IF cell.nat THEN <<>>
                                ELSE <<cell.value.day, cell.value.month, cell.value.year>>]

(* build_excel_report: the workbook saved, by the values written into it *)
build_excel_report(all_pvcs, final_beneficial, comparisons) ==
    [all_pvcs |-> all_pvcs, final_beneficial |-> final_beneficial, comparisons |-> comparisons]

(* lines 231-240: the report is saved and the results are returned *)
Done(all_pvcs, comparisons, final_beneficial) ==
    [response |-> [kind |-> "html", all_pvcs |-> all_pvcs,
                   final_beneficial |-> final_beneficial],
     report |-> <<build_excel_report(all_pvcs, final_beneficial, comparisons)>>]

(* lines 208-240: the comparisons, once Actual and Contractual are computed *)
select(form, df, original_dp, call_date, pvc1, pvc2) ==
    CHOOSE out \in
        {IF lower_str(form.lower) \in {"y", "yes"}
         THEN CHOOSE r \in
                  {IF low.err THEN ErrorResponse(low.msg)
                   ELSE Done(<<pvc1, pvc2>> \o low.pvcs,
                             <<Comparison("Normal PVC Comparison (PVC1 vs PVC2)",
                                          pvc1, pvc2, benef_normal)>> \o low.comparisons,
                             low.final_beneficial) :
                      low \in {lower_rate(form, df, original_dp, call_date, benef_normal)}}
                  : TRUE
         ELSE Done(<<pvc1, pvc2>>,
                   <<Comparison("Normal PVC Comparison (PVC1 vs PVC2)",
                                pvc1, pvc2, benef_normal)>>,
                   benef_normal) :
            benef_normal \in {beneficial(pvc1, pvc2)}} : TRUE

(* lines 197-240, after the inputs are parsed and the call date is known *)
compare(form, df, P0, base_date, original_dp, delivery_date, call_date) ==
    CHOOSE out \in
        {IF p1.err THEN ErrorResponse(p1.msg)
         ELSE IF p2.err THEN ErrorResponse(p2.msg)
         ELSE CHOOSE r \in
                  {select(form, df, original_dp, call_date, pvc1, pvc2) :
                      pvc1 \in {with_ld(p1, "PVC (Actual)", ld1)},
                      pvc2 \in {with_ld(p2, "PVC (Contractual)", ld2)}} : TRUE :
            p1 \in {calc_pvc(P0, base_date, call_date, df)},
            ld1 \in {calc_ld(P0, original_dp, delivery_date)},
            p2 \in {calc_pvc(P0, base_date, original_dp, df)},
            ld2 \in {calc_ld(P0, original_dp, delivery_date)}} : TRUE

(* POST /calculate: the response and the report files it saved *)
calculate(form, df) ==
    CHOOSE out \in
        {IF P0.err THEN ErrorResponse(P0.msg)
         ELSE IF base_date.err THEN ErrorResponse(base_date.msg)
         ELSE IF original_dp.err THEN ErrorResponse(original_dp.msg)
         ELSE IF delivery_date.err THEN ErrorResponse(delivery_date.msg)
         ELSE IF call_date.err THEN ErrorResponse(call_date.msg)
         ELSE compare(form, df, P0.value, base_date.value, original_dp.value,
                      delivery_date.value, call_date.value) :
            P0 \in {to_float(form.P0)},
            base_date \in {parse_date(form.base_date)},
            original_dp \in {parse_date(form.original_dp)},
            delivery_date \in {parse_date(form.delivery_date)},
            call_date \in {call_date_of(form)}} : TRUE

(* --------------------------- input spaces --------------------------- *)

MaxDelayDays == 150

MaxEarlyDays == 10

Row(c, es) == [C |-> c, ES |-> es, IS |-> 100, IM |-> 100, TO |-> 100, W |-> 100]

RowA == Row(200, 100)

RowB == Row(220, 100)

RowD == Row(200, 120)

RowZ == Row(200, 0)

Nov == Date(2023, 11, 1)

Dec == Date(2023, 12, 1)

Jan == Date(2024, 1, 1)

Feb == Date(2024, 2, 1)

Months == {Nov, Dec, Jan, Feb}

NoRow == Row(-1, -1)

(* the index file as loaded: the months present and their rows *)
Table(f) == [k \in {m \in Months : f[m] # NoRow} |-> f[k]]

RequestTables ==
    {Table(f) : f \in {g \in [Months -> {NoRow, RowA, RowB, RowZ}] :
                          /\ g[Nov] # RowB
                          /\ \A m \in Months \ {Nov} : g[m] # RowZ}}

AllTables == {Table(f) : f \in [Months -> {NoRow, RowA, RowB, RowD, RowZ}]}

Num(v) == [numeric |-> TRUE, value |-> v]

NotNum == [numeric |-> FALSE, value |-> 0]

LowerFields ==
    [P0_lower : {Num(100000), Num(90000), Num(0), NotNum},
     lower_date : {<<2023, 12, 10>>, <<1, 1, 2024>>, <<2024, 1, 20>>}]

(* the order identifier and the manual call date of a form; a manual date *)
(* is sent only with an identifier the registry does not hold              *)
CallFields ==
    {x \in [icno : {" IC1 ", "IC2", "IC9"}, call_date_manual : {<<>>, <<5, 3, 2024>>}] :
        x.icno = "IC9" \/ x.call_date_manual = <<>>}

(* forms that opt into the lower rate *)
LowerForms ==
    {[P0 |-> Num(100000), base_date |-> <<1, 11, 2023>>, original_dp |-> o, delivery_date |-> d,
      icno |-> i.icno, call_date_manual |-> i.call_date_manual, lower |-> l,
      P0_lower |-> x.P0_lower, lower_date |-> x.lower_date] :
        o \in {<<2024, 1, 1>>, <<10, 2, 2024>>},
        d \in {<<2023, 12, 25>>, <<2024, 1, 20>>, <<30, 6, 2024>>},
        i \in CallFields,
        l \in {"Y", "yes"},
        x \in LowerFields}

(* forms that do not: the lower rate fields are absent *)
NormalForms ==
    {[P0 |-> p, base_date |-> b, original_dp |-> o, delivery_date |-> d,
      icno |-> i.icno, call_date_manual |-> i.call_date_manual,
      lower |-> "n", P0_lower |-> NotNum, lower_date |-> <<>>] :
        p \in {Num(100000), Num(0), Num(-100000), NotNum},
        b \in {<<1, 11, 2023>>, <<31, 2, 2024>>},
        o \in {<<2024, 1, 1>>, <<10, 2, 2024>>},
        d \in {<<2023, 12, 25>>, <<2024, 1, 20>>, <<30, 6, 2024>>},
        i \in CallFields}

Forms == LowerForms \cup NormalForms

Prices == {100000, 50000, 0, -100000}

DateSpace ==
    {x \in {Date(y, m, d) : y \in 2023..2024, m \in 1..12, d \in 1..31} :
        ValidDate(x.year, x.month, x.day)}

ContractDates == {Date(2024, 1, 1), Date(2024, 2, 25)}

(* the delivery dates from MaxEarlyDays before to MaxDelayDays after o *)
DeliveryDates(o) ==
    {x \in DateSpace : /\ toordinal(x) >= toordinal(o) - MaxEarlyDays
                       /\ toordinal(x) <= toordinal(o) + MaxDelayDays}

LdCalls ==
    UNION {[P0 : {R(p) : p \in Prices}, original_dp : {o}, delivery_date : DeliveryDates(o)] :
              o \in ContractDates}

PvcCalls ==
    {[P0 |-> R(p), base_date |-> b, del_date |-> d, df |-> t] :
        p \in Prices,
        b \in {Date(2023, 11, 1), Date(2023, 12, 31), Date(2024, 1, 31)},
        d \in {Date(2024, 1, 15), Date(2024, 3, 31), Date(2023, 12, 31), Date(2024, 2, 10)},
        t \in AllTables}

(* --------------------------- state machine -------------------------- *)

VARIABLES op, args, pc, ret, saved

vars == <<op, args, pc, ret, saved>>

NoRet == [kind |-> "none"]

Init ==
    /\ pc = "call"
    /\ ret = NoRet
    /\ saved = <<>>
    /\ \/ op = "calculate" /\ args \in [form : Forms, df : RequestTables]
       \/ op = "check_icno" /\ args \in [icno : {" IC1 ", "IC1", "IC2", "IC9"}]

(* POST /calculate *)
Calculate ==
    /\ pc = "call"
    /\ op = "calculate"
    /\ \E out \in {calculate(args.form, args.df)} :
           /\ ret' = out.response
           /\ saved' = saved \o out.report
    /\ pc' = "done"
    /\ UNCHANGED <<op, args>>

(* GET /check_icno *)
CheckIcno ==
    /\ pc = "call"
    /\ op = "check_icno"
    /\ ret' = check_icno(args.icno)
    /\ pc' = "done"
    /\ UNCHANGED <<op, args, saved>>

Next == Calculate \/ CheckIcno

Spec == Init /\ [][Next]_vars

(* calc_ld applied to inputs drawn from LdCalls *)
InitLd ==
    /\ pc = "call"
    /\ ret = NoRet
    /\ saved = <<>>
    /\ op = "calc_ld"
    /\ args \in LdCalls

CalcLd ==
    /\ pc = "call"
    /\ op = "calc_ld"
    /\ ret' = calc_ld(args.P0, args.original_dp, args.delivery_date)
    /\ pc' = "done"
    /\ UNCHANGED <<op, args, saved>>

NextLd == CalcLd

SpecLd == InitLd /\ [][NextLd]_vars

(* calc_pvc applied to inputs drawn from PvcCalls *)
InitPvc ==
    /\ pc = "call"
    /\ ret = NoRet
    /\ saved = <<>>
    /\ op = "calc_pvc"
    /\ args \in PvcCalls

CalcPvc ==
    /\ pc = "call"
    /\ op = "calc_pvc"
    /\ ret' = calc_pvc(args.P0, args.base_date, args.del_date, args.df)
    /\ pc' = "done"
    /\ UNCHANGED <<op, args, saved>>

NextPvc == CalcPvc

SpecPvc == InitPvc /\ [][NextPvc]_vars

(* ------------------------- claims: /calculate ----------------------- *)

CalcDone == op = "calculate" /\ pc = "done"

CalcOk == CalcDone /\ ret.kind = "html"

(* the report a successful calculation saved *)
Report == saved[1]

Names(pvcs) == [i \in 1..Len(pvcs) |-> pvcs[i].name]

Titles(comparisons) == [i \in 1..Len(comparisons) |-> comparisons[i].title]

OptIn == args.form.lower \in {"y", "yes", "Y", "YES"}

AgreedDate == parse_date(args.form.original_dp).value

ActualDate == parse_date(args.form.delivery_date).value

LowerDate == parse_date(args.form.lower_date).value

(* C1: after every successful calculation the final beneficial scenario is *)
(* one of the scenarios of the scenario list, and its net amount is at     *)
(* most the net amount of every scenario of the list.                      *)
C1_FinalIsLowestNet ==
    CalcOk =>
        /\ \E i \in 1..Len(ret.all_pvcs) : ret.all_pvcs[i] = ret.final_beneficial
        /\ \A i \in 1..Len(ret.all_pvcs) :
              RLe(ret.final_beneficial.net, ret.all_pvcs[i].net)
        /\ Report.all_pvcs = ret.all_pvcs
        /\ Report.final_beneficial = ret.final_beneficial

(* four scenarios, the last-listed one strictly the cheapest *)
C1_Witness ==
    /\ CalcOk
    /\ Len(ret.all_pvcs) = 4
    /\ ret.final_beneficial = ret.all_pvcs[4]
    /\ \A i \in 1..3 : RLt(ret.all_pvcs[4].net, ret.all_pvcs[i].net)

(* the first-listed case wins a tie; the second-listed one is chosen only  *)
(* when its net is strictly smaller                                        *)
FirstWinsTies(case1, case2, chosen) ==
    /\ chosen \in {case1, case2}
    /\ case1.net = case2.net => chosen = case1
    /\ chosen = case2 => RLt(case2.net, case1.net)

(* C2: at every comparison step the first-listed scenario wins a tie:      *)
(* Actual over Contractual, Lower Rate Contractual over Lower Rate Actual, *)
(* and the lower-rate side over beneficial-of-normal in the final step.    *)
C2_FirstListedWinsTies ==
    CalcOk =>
        LET pvcs == ret.all_pvcs
            benef_normal == Report.comparisons[1].beneficial
        IN  /\ Report.comparisons[1].case1 = pvcs[1]
            /\ Report.comparisons[1].case2 = pvcs[2]
            /\ FirstWinsTies(pvcs[1], pvcs[2], benef_normal)
            /\ Len(pvcs) = 2 => ret.final_beneficial = benef_normal
            /\ Len(pvcs) = 3 => FirstWinsTies(pvcs[3], benef_normal, ret.final_beneficial)
            /\ Len(pvcs) = 4 =>
                  /\ Report.comparisons[2].case1 = pvcs[3]
                  /\ Report.comparisons[2].case2 = pvcs[4]
                  /\ FirstWinsTies(pvcs[3], pvcs[4], Report.comparisons[2].beneficial)
                  /\ FirstWinsTies(Report.comparisons[2].beneficial, benef_normal,
                                   ret.final_beneficial)

(* all four nets equal: every step is a tie and Lower Rate Contractual is final *)
C2_Witness ==
    /\ CalcOk
    /\ Len(ret.all_pvcs) = 4
    /\ \A i \in 1..4 : ret.all_pvcs[i].net = ret.all_pvcs[1].net
    /\ ret.final_beneficial.name = "Lower Rate PVC (Contractual)"
    /\ Report.comparisons[1].beneficial.name = "PVC (Actual)"

(* C3: the branch is fixed by the opt-in flag and the test                 *)
(* agreedDeliveryDate < lowerRateDate: no opt-in gives [Actual,            *)
(* Contractual], one comparison and final = beneficial-of-normal; opt-in   *)
(* with agreed < lower gives three scenarios and still one comparison;     *)
(* opt-in with lower <= agreed gives four scenarios and two comparisons.   *)
C3_BranchPartition ==
    CalcOk =>
        LET names == Names(ret.all_pvcs)
            titles == Titles(Report.comparisons)
            normal == "Normal PVC Comparison (PVC1 vs PVC2)"
        IN  /\ ~OptIn =>
                  /\ names = <<"PVC (Actual)", "PVC (Contractual)">>
                  /\ titles = <<normal>>
                  /\ ret.final_beneficial = Report.comparisons[1].beneficial
            /\ (OptIn /\ toordinal(AgreedDate) < toordinal(LowerDate)) =>
                  /\ names = <<"PVC (Actual)", "PVC (Contractual)", "Lower Rate PVC (Actual)">>
                  /\ titles = <<normal>>
            /\ (OptIn /\ toordinal(LowerDate) <= toordinal(AgreedDate)) =>
                  /\ names = <<"PVC (Actual)", "PVC (Contractual)",
                               "Lower Rate PVC (Contractual)", "Lower Rate PVC (Actual)">>
                  /\ titles = <<normal, "Lower Rate PVC Comparison (Case A vs Case B)">>

(* opt-in with the lower date equal to the agreed delivery date *)
C3_Witness ==
    /\ CalcOk
    /\ OptIn
    /\ LowerDate = AgreedDate
    /\ Len(ret.all_pvcs) = 4

(* C4: Actual and Contractual each have net = own escalated price minus    *)
(* the same LD amount, the LD of (quoted price, agreed delivery date,      *)
(* actual delivery date); every Lower Rate scenario carries no LD result   *)
(* and has net = its escalated price.                                      *)
C4_NetDerivation ==
    CalcOk =>
        LET pvcs == ret.all_pvcs
            days == toordinal(ActualDate) - toordinal(AgreedDate)
        IN  /\ \A i \in 1..2 :
                  /\ pvcs[i].ld_detail = pvcs[1].ld_detail
                  /\ pvcs[i].ld_amt = pvcs[1].ld_detail.ld_amt
                  /\ RAdd(pvcs[i].net, pvcs[1].ld_detail.ld_amt) = pvcs[i].P
            /\ pvcs[1].ld_detail.days = days
            /\ pvcs[1].ld_detail = calc_ld(R(args.form.P0.value), AgreedDate, ActualDate)
            /\ \A i \in 3..Len(pvcs) :
                  /\ "ld_detail" \notin DOMAIN pvcs[i]
                  /\ "ld_amt" \notin DOMAIN pvcs[i]
                  /\ pvcs[i].net = pvcs[i].P

(* four scenarios with a positive LD and different escalated prices for    *)
(* Actual and Contractual                                                  *)
C4_Witness ==
    /\ CalcOk
    /\ Len(ret.all_pvcs) = 4
    /\ RLt(R(0), ret.all_pvcs[1].ld_amt)
    /\ ret.all_pvcs[1].P # ret.all_pvcs[2].P

(* C5 (as stated): with quoted price 100,000, escalated price 104,000,     *)
(* agreed delivery 2024-01-01 and actual delivery 2024-01-20 the delay is  *)
(* 19 days and 3 weeks, the percent 1.5, the penalty 104,000 x 1.18 / 100  *)
(* x 1.5 = 1,840.8 and the net 104,000 - 1,840.8 = 102,159.2.              *)
C5_Example ==
    /\ CalcOk
    /\ args.form.P0 = Num(100000)
    /\ ret.all_pvcs[1].P = R(104000)
    /\ AgreedDate = Date(2024, 1, 1)
    /\ ActualDate = Date(2024, 1, 20)

C5_PenaltyOnEscalatedPrice ==
    C5_Example =>
        /\ ret.all_pvcs[1].ld_detail.days = 19
        /\ ret.all_pvcs[1].ld_detail.weeks = 3
        /\ ret.all_pvcs[1].ld_detail.ld_percent = <<3, 2>>
        /\ ret.all_pvcs[1].ld_amt = <<9204, 5>>
        /\ ret.all_pvcs[1].net = <<510796, 5>>

(* C5 (amended): in that example the delay is 19 days and 3 weeks, the     *)
(* percent 1.5, and the penalty is taken on the quoted price: 100,000 x    *)
(* 1.18 / 100 x 1.5 = 1,770, so the net is 104,000 - 1,770 = 102,230.      *)
C5_PenaltyOnQuotedPrice ==
    C5_Example =>
        /\ ret.all_pvcs[1].ld_detail.days = 19
        /\ ret.all_pvcs[1].ld_detail.weeks = 3
        /\ ret.all_pvcs[1].ld_detail.ld_percent = <<3, 2>>
        /\ ret.all_pvcs[1].ld_amt = R(1770)
        /\ ret.all_pvcs[1].net = R(102230)

C5_Witness == C5_Example /\ ret.all_pvcs[1].name = "PVC (Actual)"

(* C10: a quoted price, or with opt-in an alternate price, that is zero or *)
(* negative is rejected: the calculation ends in an error and no report or *)
(* final beneficial scenario is produced.                                  *)
C10_NonPositivePriceRejected ==
    (/\ CalcDone
     /\ \/ args.form.P0.numeric /\ args.form.P0.value <= 0
        \/ OptIn /\ args.form.P0_lower.numeric /\ args.form.P0_lower.value <= 0)
    => (ret.kind = "error" /\ saved = <<>>)

(* --------------------------- claims: calc_ld ------------------------ *)

LdDone == op = "calc_ld" /\ pc = "done"

Delay == toordinal(args.delivery_date) - toordinal(args.original_dp)

(* C6 (as stated): for actualDate - contractualDate <= 0 the result has    *)
(* days, weeks, penalty percent and penalty amount all exactly zero.       *)
C6_EarlyAllZero ==
    (LdDone /\ Delay <= 0) =>
        /\ ret.days = 0
        /\ ret.weeks = 0
        /\ ret.ld_percent = R(0)
        /\ ret.ld_amt = R(0)

(* C6 (amended): for actualDate - contractualDate <= 0 the result has      *)
(* weeks, penalty percent and penalty amount exactly zero, and days equal  *)
(* to the signed difference actualDate - contractualDate (zero only when   *)
(* delivery is on the agreed date, negative when early).                   *)
C6_EarlyNoDamages ==
    (LdDone /\ Delay <= 0) =>
        /\ ret.days = Delay
        /\ ret.weeks = 0
        /\ ret.ld_percent = R(0)
        /\ ret.ld_amt = R(0)

(* delivery more than a week early, at a non-zero price *)
C6_Witness == LdDone /\ Delay < -7 /\ args.P0 # R(0) /\ ret.ld_amt = R(0)

(* C7: for every positive delay weeks = ceiling(days/7) and percent =      *)
(* min(weeks/2, 10): 1 to 7 days give 1 week and 0.5%, the percent is      *)
(* non-decreasing in the delay, never exceeds 10 and is exactly 10 from 20 *)
(* weeks on; the amount is price x 1.18 / 100 x percent.                   *)
C7_PenaltySchedule ==
    (LdDone /\ Delay > 0) =>
        /\ ret.days = Delay
        /\ 7 * (ret.weeks - 1) < Delay
        /\ Delay <= 7 * ret.weeks
        /\ ret.weeks < 20 => RMul(ret.ld_percent, R(2)) = R(ret.weeks)
        /\ ret.weeks >= 20 => ret.ld_percent = R(10)
        /\ Delay <= 7 => (ret.weeks = 1 /\ ret.ld_percent = <<1, 2>>)
        /\ RLe(ret.ld_percent, R(10))
        /\ \A d \in DeliveryDates(args.original_dp) :
              toordinal(d) <= toordinal(args.delivery_date) =>
                  RLe(calc_ld(args.P0, args.original_dp, d).ld_percent, ret.ld_percent)
        /\ RMul(ret.ld_amt, R(10000)) = RMul(RMul(args.P0, R(118)), ret.ld_percent)

(* a delay past 20 weeks, capped at 10% *)
C7_Witness ==
    /\ LdDone
    /\ Delay > 140
    /\ ret.weeks = 21
    /\ ret.ld_percent = R(10)
    /\ ret.ld_amt = R(11800)

(* -------------------------- claims: calc_pvc ------------------------ *)

PvcDone == op = "calc_pvc" /\ pc = "done"

BaseKey == Date(args.base_date.year, args.base_date.month, 1)

RefKey ==
    IF args.del_date.month = 1
    THEN Date(args.del_date.year - 1, 12, 1)
    ELSE Date(args.del_date.year, args.del_date.month - 1, 1)

TermColumn == [Copper |-> "C", CRGO |-> "ES", MS |-> "IS", InsMat |-> "IM", TransOil |-> "TO", WPI |-> "W"]

TermNames == {"Copper", "CRGO", "MS", "InsMat", "TransOil", "WPI"}

(* C8: base values are read at the month of the base date, reference       *)
(* values at the month before the reference date (January wraps to         *)
(* December of the previous year); ratio = reference/base, exactly 1 for a *)
(* zero base; escalated price = (price/100) x (8 + sum of coefficient x    *)
(* ratio) with coefficients {40,24,8,4,8,8}; it is linear in price; price  *)
(* 100,000 with Copper 200 -> 220 and all other ratios 1 gives 104 and     *)
(* 104,000.                                                                *)
C8_EscalatedPrice ==
    PvcDone =>
        /\ ret.err <=> (BaseKey \notin DOMAIN args.df \/ RefKey \notin DOMAIN args.df)
        /\ ~ret.err =>
              LET b == args.df[BaseKey]
                  r == args.df[RefKey]
                  ratio(t) == ret.terms[t].ratio
                  weighted(c, t) == RMul(R(c), ratio(t))
              IN  /\ \A t \in TermNames :
                        /\ ret.terms[t].base = b[TermColumn[t]]
                        /\ ret.terms[t].del = r[TermColumn[t]]
                        /\ b[TermColumn[t]] # 0 =>
                              RMul(ratio(t), R(b[TermColumn[t]])) = R(r[TermColumn[t]])
                        /\ b[TermColumn[t]] = 0 => ratio(t) = R(1)
                  /\ ret.total =
                        RAdd(R(8), RAdd(weighted(40, "Copper"), RAdd(weighted(24, "CRGO"),
                        RAdd(weighted(8, "MS"), RAdd(weighted(4, "InsMat"),
                        RAdd(weighted(8, "TransOil"), weighted(8, "WPI")))))))
                  /\ RMul(ret.P, R(100)) = RMul(args.P0, ret.total)
                  /\ calc_pvc(RMul(R(2), args.P0), args.base_date, args.del_date, args.df).P
                        = RMul(R(2), ret.P)
                  /\ (/\ args.P0 = R(100000)
                      /\ b.C = 200
                      /\ r.C = 220
                      /\ \A t \in TermNames \ {"Copper"} : ratio(t) = R(1))
                     => (ret.total = R(104) /\ ret.P = R(104000))

(* the example with a January reference date and a zero base value: the    *)
(* reference month is December of the previous year                        *)
C8_Witness ==
    /\ PvcDone
    /\ ~ret.err
    /\ args.del_date = Date(2024, 1, 15)
    /\ RefKey = Date(2023, 12, 1)
    /\ args.P0 = R(100000)
    /\ ret.terms["CRGO"].base = 0
    /\ ret.terms["Copper"].ratio = <<11, 10>>
    /\ ret.P = R(104000)

(* ---------------------- claims: failures are fatal ------------------ *)

PrevKey(dt) ==
    IF dt.month = 1 THEN Date(dt.year - 1, 12, 1) ELSE Date(dt.year, dt.month - 1, 1)

IcnoUnknown == \A i \in 1..Len(insp_df) : insp_df[i].ICNO # strip(args.form.icno)

MissingCallDate == IcnoUnknown /\ args.form.call_date_manual = <<>>

(* the dates of the form parse and a call date is known *)
InputsRead ==
    /\ args.form.P0.numeric
    /\ ~parse_date(args.form.base_date).err
    /\ ~parse_date(args.form.original_dp).err
    /\ ~parse_date(args.form.delivery_date).err
    /\ ~call_date_of(args.form).err

CallDate == call_date_of(args.form).value

BaseDate == parse_date(args.form.base_date).value

NormalMonths == {Date(BaseDate.year, BaseDate.month, 1), PrevKey(CallDate), PrevKey(AgreedDate)}

LowerRead ==
    /\ OptIn
    /\ args.form.P0_lower.numeric
    /\ ~parse_date(args.form.lower_date).err

LowerMonths == {Date(LowerDate.year, LowerDate.month, 1), PrevKey(CallDate)}

IndexMissing ==
    /\ InputsRead
    /\ \/ \E m \in NormalMonths : m \notin DOMAIN args.df
       \/ LowerRead /\ \E m \in LowerMonths : m \notin DOMAIN args.df

(* C9: a failure is fatal with no partial result: when the order           *)
(* identifier is unknown and no manual call date is given, or when a month *)
(* a required scenario needs is missing from the index table (a lower-rate *)
(* scenario after Actual and Contractual succeeded included), the response *)
(* is an error, no report is built, and no scenario list or final          *)
(* beneficial scenario is returned.                                        *)
C9_FailureIsFatal ==
    CalcDone =>
        /\ (MissingCallDate \/ IndexMissing) => ret.kind = "error"
        /\ ret.kind = "error" =>
              /\ saved = <<>>
              /\ DOMAIN ret = {"kind", "msg"}
        /\ ret.kind = "html" => Len(saved) = 1

(* the normal scenarios' months are present, the lower rate base month is not *)
C9_Witness ==
    /\ CalcDone
    /\ InputsRead
    /\ LowerRead
    /\ \A m \in NormalMonths : m \in DOMAIN args.df
    /\ PrevKey(CallDate) \in DOMAIN args.df
    /\ Date(LowerDate.year, LowerDate.month, 1) \notin DOMAIN args.df
    /\ ret.kind = "error"
    /\ saved = <<>>

====
